---- MODULE Spec2Model ----
(***************************************************************************)
(* A model of the rivenu RISC-V simulator core: the register file          *)
(* (src/src/cpu/register.rs), the instruction decoder                      *)
(* (src/src/instruction/parse.rs, src/src/instruction.rs) and the physical *)
(* memory with its MMIO devices (src/src/memory.rs).                       *)
(*                                                                         *)
(* A Rust panic is modelled as a state: the component's `panicked` flag    *)
(* becomes TRUE and no further operation of that component is enabled.     *)
(***************************************************************************)
EXTENDS Integers, Sequences, FiniteSets, TLC

VARIABLES
    \* ---- Registers<B> (cpu/register.rs)
    xregs,        \* Box<[Cell<B::Addr>]> of 31 cells, indices 0..30
    csr,          \* Box<[Cell<B::Addr>]> of CSR_CAPACITY cells: the cells written
                  \* so far (every other cell still holds the zero of new())
    pc,           \* the program counter
    regOp,        \* the last register-file operation: [name, reg, val]
    regRet,       \* what the last call returned (0 for a call that returns ())
    regPanicked,  \* an index was out of bounds
    \* ---- decode::<B>(raw_inst) (instruction/parse.rs)
    base,         \* the Base the decoder is instantiated with
    raw,          \* the raw u32 instruction word, as 16-bit halves
    decoded,      \* Option<Instruction>
    text,         \* Instruction::to_string()
    dpc,          \* "fetched" -> "decoded" -> "shown"
    \* ---- Memory (memory.rs)
    ram,          \* Vec<u8>
    mmios,        \* Vec<Box<dyn Mmio>>
    memOp,        \* the last memory operation
    memRet,       \* what the last read returned
    memPanicked,  \* an index was out of bounds
    nops,         \* number of memory operations so far
    \* ---- Mmu<B> (memory/mmu.rs)
    mmu,          \* Option of the Mmu: its base and its AddressingMode
    mmuOp,        \* the last MMU operation: [name, va]
    mmuRet,       \* what the last translate_addr returned
    mmuPanicked   \* a panic!, assert! or todo!() was reached

regVars == <<xregs, csr, pc, regOp, regRet, regPanicked>>
decVars == <<base, raw, decoded, text, dpc>>
memVars == <<ram, mmios, memOp, memRet, memPanicked, nops>>
mmuVars == <<mmu, mmuOp, mmuRet, mmuPanicked>>
vars == <<regVars, decVars, memVars, mmuVars>>

\* What a read that panics returns: nothing (no value of B::Addr is negative).
Panic == -1
\* Option<T>: None is the empty sequence, Some(x) the sequence <<x>>.
None == <<>>
Some(x) == <<x>>

(***************************************************************************)
(* Register file                                                           *)
(***************************************************************************)

\* Register values are opaque to the register file (stored and returned
\* verbatim), so a few distinct values of B::Addr stand for all of them.
MaxVal == 2
Val == 0 .. MaxVal

CSR_CAPACITY == 4096
NumXRegs == 31

MVENDORID == 3857   \* 0xF11
MARCHID == 3858     \* 0xF12
MIMPID == 3859      \* 0xF13
MHARTID == 3860     \* 0xF14
SATP == 384         \* 0x180

\* A write_csr that forgets the last read-only register.
READ_ONLY_REGS_short == {MVENDORID, MARCHID, MIMPID}
READ_ONLY_REGS == {MVENDORID, MARCHID, MIMPID, MHARTID}

\* XRegister(u8) / CsrRegister(u16) arguments the callers are drawn from.
XRegisterArgs == {0, 1, 30, 31}
CsrRegisterArgs ==
    {SATP, MVENDORID, MARCHID, MIMPID, MHARTID, CSR_CAPACITY - 1, CSR_CAPACITY}

RegistersNew ==
    /\ xregs = [i \in 0 .. NumXRegs - 1 |-> 0]
    /\ csr = [i \in {} |-> 0]
    /\ pc = 0
    /\ regOp = [name |-> "new", reg |-> 0, val |-> 0]
    /\ regRet = 0
    /\ regPanicked = FALSE

read_x(reg) ==
    IF reg = 0 THEN 0
    ELSE IF reg \in DOMAIN xregs THEN xregs[reg] ELSE Panic

\* Indices of the csr slice: 0 .. CSR_CAPACITY - 1.
CsrIndex == 0 .. CSR_CAPACITY - 1
\* csr[reg].set(value) that leaves every other cell at the zero of new().
CsrSet_only(reg, value) == [n \in {reg} |-> value]
\* csr[reg].set(value)
CsrSet(reg, value) ==
    [n \in DOMAIN csr \cup {reg} |-> IF n = reg THEN value ELSE csr[n]]

read_csr(reg) ==
    IF reg \in CsrIndex
      THEN IF reg \in DOMAIN csr THEN csr[reg] ELSE 0
      ELSE Panic

ReadX(reg) ==
    /\ ~regPanicked
    /\ regRet' = read_x(reg)
    /\ regPanicked' = (read_x(reg) = Panic)
    /\ regOp' = [name |-> "read_x", reg |-> reg, val |-> 0]
    /\ UNCHANGED <<xregs, csr, pc, decVars, memVars, mmuVars>>

\* write_x without the x0 guard.
write_x_unguarded(reg, val) ==
    /\ ~regPanicked
    /\ IF reg \in DOMAIN xregs
         THEN xregs' = [xregs EXCEPT ![reg] = val] /\ regPanicked' = FALSE
         ELSE xregs' = xregs /\ regPanicked' = TRUE
    /\ regOp' = [name |-> "write_x", reg |-> reg, val |-> val]
    /\ regRet' = 0
    /\ UNCHANGED <<csr, pc, decVars, memVars, mmuVars>>
write_x(reg, val) ==
    /\ ~regPanicked
    /\ IF reg # 0
         THEN IF reg \in DOMAIN xregs
                THEN xregs' = [xregs EXCEPT ![reg] = val] /\ regPanicked' = FALSE
                ELSE xregs' = xregs /\ regPanicked' = TRUE
         ELSE xregs' = xregs /\ regPanicked' = FALSE
    /\ regOp' = [name |-> "write_x", reg |-> reg, val |-> val]
    /\ regRet' = 0
    /\ UNCHANGED <<csr, pc, decVars, memVars, mmuVars>>

ReadCsr(reg) ==
    /\ ~regPanicked
    /\ regRet' = read_csr(reg)
    /\ regPanicked' = (read_csr(reg) = Panic)
    /\ regOp' = [name |-> "read_csr", reg |-> reg, val |-> 0]
    /\ UNCHANGED <<xregs, csr, pc, decVars, memVars, mmuVars>>

\* write_csr that treats the whole 0xF11.. range as read-only.
write_csr_range(reg, value) ==
    /\ ~regPanicked
    /\ IF reg >= MVENDORID
         THEN csr' = csr /\ regPanicked' = FALSE
         ELSE IF reg \in CsrIndex
                THEN csr' = CsrSet(reg, value) /\ regPanicked' = FALSE
                ELSE csr' = csr /\ regPanicked' = TRUE
    /\ regOp' = [name |-> "write_csr", reg |-> reg, val |-> value]
    /\ regRet' = 0
    /\ UNCHANGED <<xregs, pc, decVars, memVars, mmuVars>>
write_csr(reg, value) ==
    /\ ~regPanicked
    /\ IF reg \in READ_ONLY_REGS
         THEN csr' = csr /\ regPanicked' = FALSE
         ELSE IF reg \in CsrIndex
                THEN csr' = CsrSet(reg, value) /\ regPanicked' = FALSE
                ELSE csr' = csr /\ regPanicked' = TRUE
    /\ regOp' = [name |-> "write_csr", reg |-> reg, val |-> value]
    /\ regRet' = 0
    /\ UNCHANGED <<xregs, pc, decVars, memVars, mmuVars>>

\* pc(): a copy of the program counter.
ReadPc ==
    /\ ~regPanicked
    /\ regRet' = pc
    /\ regOp' = [name |-> "pc", reg |-> 0, val |-> 0]
    /\ UNCHANGED <<xregs, csr, pc, regPanicked, decVars, memVars, mmuVars>>

\* *pc_mut() = val
pc_mut(val) ==
    /\ ~regPanicked
    /\ pc' = val
    /\ regOp' = [name |-> "pc_mut", reg |-> 0, val |-> val]
    /\ regRet' = 0
    /\ UNCHANGED <<xregs, csr, regPanicked, decVars, memVars, mmuVars>>

\* Placeholders while the other components are idle.
RegIdle ==
    /\ xregs = <<>> /\ csr = <<>> /\ pc = 0 /\ regOp = [name |-> "idle"]
    /\ regRet = 0 /\ regPanicked = FALSE
DecIdle ==
    /\ base = "RV64I" /\ raw = [hi |-> 0, lo |-> 0] /\ decoded = None
    /\ text = "" /\ dpc = "idle"
MemIdle ==
    /\ ram = <<>> /\ mmios = <<>>
    /\ memOp = [name |-> "idle", ty |-> "u8", addr |-> 0, val |-> <<>>]
    /\ memRet = <<>> /\ memPanicked = FALSE /\ nops = 0

MmuIdle ==
    /\ mmu = <<>> /\ mmuOp = [name |-> "idle", va |-> <<>>]
    /\ mmuRet = [tag |-> "none", val |-> <<>>] /\ mmuPanicked = FALSE

InitRegisters == RegistersNew /\ DecIdle /\ MemIdle /\ MmuIdle

NextRegisters ==
    \/ \E reg \in XRegisterArgs : ReadX(reg)
    \/ \E reg \in XRegisterArgs, val \in Val : write_x(reg, val)
    \/ \E reg \in CsrRegisterArgs : ReadCsr(reg)
    \/ \E reg \in CsrRegisterArgs, val \in Val : write_csr(reg, val)
    \/ ReadPc
    \/ \E val \in Val : pc_mut(val)

SpecRegisters == InitRegisters /\ [][NextRegisters]_vars

(***************************************************************************)
(* Claims about the register file                                          *)
(***************************************************************************)

\* C1: for every i in 1..31 and every v, write_x(i, v) followed by
\* read_x(i) completes and returns v.
C1_WriteReadX ==
    (regOp.name = "write_x" /\ regOp.reg \in 1 .. 31)
        => (~regPanicked /\ read_x(regOp.reg) = regOp.val)

\* C2: read_x(0) returns 0 in every reachable state, and a write_x(0, v)
\* step changes nothing of the register file.
C2_X0Hardwired ==
    [][ /\ read_x(0) = 0
        /\ (read_x(0))' = 0
        /\ (regOp'.name = "write_x" /\ regOp'.reg = 0)
              => (UNCHANGED <<xregs, csr, pc>> /\ ~regPanicked') ]_vars

C2_Witness ==
    /\ regOp.name = "write_x" /\ regOp.reg = 0 /\ regOp.val # 0
    /\ read_x(1) # 0

\* C3: the four read-only CSRs read 0 in every reachable state: a
\* write_csr to one of them is a no-op.
C3_ReadOnlyCsr ==
    \A n \in {MVENDORID, MARCHID, MIMPID, MHARTID} : read_csr(n) = 0

C3_Witness ==
    /\ regOp.name = "write_csr" /\ regOp.reg = MHARTID /\ regOp.val # 0
    /\ ~regPanicked

\* C4: for every CSR number n in 0..4095 outside the read-only set,
\* write_csr(n, v) followed by read_csr(n) returns v.
C4_WriteReadCsr ==
    (/\ regOp.name = "write_csr"
     /\ regOp.reg \in 0 .. 4095
     /\ regOp.reg \notin {MVENDORID, MARCHID, MIMPID, MHARTID})
        => (~regPanicked /\ read_csr(regOp.reg) = regOp.val)

C4_Witness ==
    /\ regOp.name = "write_csr" /\ regOp.reg = 4095 /\ regOp.val # 0
    /\ read_csr(4095) = regOp.val


(***************************************************************************)
(* Instruction decoder                                                     *)
(*                                                                         *)
(* A u32 is carried as its two 16-bit halves [hi, lo] (the model checker's *)
(* integers are 32-bit signed); every field taken out of it is below 2^31  *)
(* and is an ordinary integer.  An i32 is an ordinary integer.             *)
(***************************************************************************)

Bases == {"RV32I", "RV64I"}

\* Base::supports_rv64
supports_rv64(B) == B = "RV64I"

\* a & b on non-negative integers
RECURSIVE BitAnd(_, _)
BitAnd(a, b) ==
    IF a = 0 \/ b = 0 THEN 0
    ELSE (a % 2) * (b % 2) + 2 * BitAnd(a \div 2, b \div 2)

\* a | b on non-negative integers
RECURSIVE BitOr(_, _)
BitOr(a, b) ==
    IF a = 0 THEN b
    ELSE IF b = 0 THEN a
    ELSE (IF a % 2 = 1 \/ b % 2 = 1 THEN 1 ELSE 0) + 2 * BitOr(a \div 2, b \div 2)

\* x << k and x >> k on a non-negative integer that stays below 2^31
Shl(x, k) == x * 2 ^ k
Shr(x, k) == x \div 2 ^ k

\* inst >> k for the u32 inst and 1 <= k <= 31
ShrW(inst, k) ==
    IF k >= 16 THEN inst.hi \div 2 ^ (k - 16)
    ELSE inst.hi * 2 ^ (16 - k) + inst.lo \div 2 ^ k

\* inst & m for the u32 inst and a mask m below 2^16
AndW(inst, m) == BitAnd(inst.lo, m)

\* (inst & 0xFFFF_F000) as i32
UpperAsI32(inst) ==
    (IF inst.hi >= 32768 THEN inst.hi - 65536 ELSE inst.hi) * 65536
        + BitAnd(inst.lo, 61440)

\* ((x as i32) << s) >> s without the sign extension: the low 32 - s bits.
ZeroExtend(x, s) == x % 2 ^ (32 - s)
\* ((x as i32) << s) >> s: the left shift drops the bits above bit 31 - s,
\* the arithmetic right shift copies bit 31 - s into them.
SignExtend(x, s) ==
    LET low == x % 2 ^ (32 - s)
    IN  IF low >= 2 ^ (31 - s) THEN low - 2 ^ (32 - s) ELSE low

\* HashMap::get(&key).cloned()
Get(table, key) == IF key \in DOMAIN table THEN Some(table[key]) ELSE None

\* instruction_type with the floating-point load opcode 0000111 taken as I.
instruction_type_fp(opcode) ==
    IF opcode \in {3, 7, 15, 19, 27, 103, 115} THEN Some("I")
    ELSE IF opcode \in {23, 55} THEN Some("U")
    ELSE IF opcode \in {51, 59} THEN Some("R")
    ELSE IF opcode = 35 THEN Some("S")
    ELSE IF opcode = 99 THEN Some("B")
    ELSE IF opcode = 111 THEN Some("J")
    ELSE None
instruction_type(opcode) ==
    IF opcode \in {3, 15, 19, 27, 103, 115} THEN Some("I")
    ELSE IF opcode \in {23, 55} THEN Some("U")
    ELSE IF opcode \in {51, 59} THEN Some("R")
    ELSE IF opcode = 35 THEN Some("S")
    ELSE IF opcode = 99 THEN Some("B")
    ELSE IF opcode = 111 THEN Some("J")
    ELSE None

\* i_kind_get: RV32_TABLE and RV64_TABLE, keyed by (opcode, funct3)
I_RV32_TABLE ==
    (<<19, 0>> :> "ADDI") @@ (<<19, 2>> :> "SLTI") @@ (<<19, 3>> :> "SLTIU") @@
    (<<19, 4>> :> "XORI") @@ (<<19, 6>> :> "ORI") @@ (<<19, 7>> :> "ANDI") @@
    (<<3, 0>> :> "LB") @@ (<<3, 1>> :> "LH") @@ (<<3, 2>> :> "LW") @@
    (<<3, 4>> :> "LBU") @@ (<<3, 5>> :> "LHU") @@
    (<<103, 0>> :> "JALR") @@
    (<<15, 0>> :> "FENCE")
I_RV64_TABLE ==
    (<<3, 6>> :> "LWU") @@ (<<3, 3>> :> "LD") @@ (<<15, 1>> :> "FENCE_I")

i_kind_get(B, opcode, funct3) ==
    LET r == Get(I_RV32_TABLE, <<opcode, funct3>>)
    IN  IF r # None THEN r
        ELSE IF supports_rv64(B) THEN Get(I_RV64_TABLE, <<opcode, funct3>>)
        ELSE None

\* s_kind_get
S_RV32_TABLE == (<<35, 0>> :> "SB") @@ (<<35, 1>> :> "SH") @@ (<<35, 2>> :> "SW")
S_RV64_TABLE == (<<35, 3>> :> "SD")

s_kind_get(B, opcode, funct3) ==
    LET r == Get(S_RV32_TABLE, <<opcode, funct3>>)
    IN  IF r # None THEN r
        ELSE IF supports_rv64(B) THEN Get(S_RV64_TABLE, <<opcode, funct3>>)
        ELSE None

\* r_kind_get: keyed by (opcode, funct3, funct7)
R_RV32_TABLE ==
    (<<51, 0, 0>> :> "ADD") @@ (<<51, 0, 32>> :> "SUB") @@
    (<<51, 1, 0>> :> "SLL") @@ (<<51, 2, 0>> :> "SLT") @@
    (<<51, 3, 0>> :> "SLTU") @@ (<<51, 4, 0>> :> "XOR") @@
    (<<51, 5, 0>> :> "SRL") @@ (<<51, 5, 32>> :> "SRA") @@
    (<<51, 6, 0>> :> "OR") @@ (<<51, 7, 0>> :> "AND")
R_RV64_TABLE ==
    (<<59, 0, 0>> :> "ADDW") @@ (<<59, 0, 32>> :> "SUBW") @@
    (<<59, 1, 0>> :> "SLLW") @@ (<<59, 5, 0>> :> "SRLW") @@
    (<<59, 5, 64>> :> "SRAW")

r_kind_get(B, opcode, funct3, funct7) ==
    LET r == Get(R_RV32_TABLE, <<opcode, funct3, funct7>>)
    IN  IF r # None THEN r
        ELSE IF supports_rv64(B) THEN Get(R_RV64_TABLE, <<opcode, funct3, funct7>>)
        ELSE None

\* b_kind_get
B_RV32_TABLE ==
    (<<99, 0>> :> "BEQ") @@ (<<99, 1>> :> "BNE") @@ (<<99, 4>> :> "BLT") @@
    (<<99, 5>> :> "BGE") @@ (<<99, 6>> :> "BLTU") @@ (<<99, 7>> :> "BGEU")

\* b_kind_get with every funct3 of opcode 1100011 taken as a branch.
b_kind_get_all(B, opcode, funct3) ==
    IF <<opcode, funct3>> \in DOMAIN B_RV32_TABLE
    THEN Some(B_RV32_TABLE[<<opcode, funct3>>])
    ELSE IF opcode = 99 THEN Some("BEQ") ELSE None
b_kind_get(B, opcode, funct3) == Get(B_RV32_TABLE, <<opcode, funct3>>)

\* Some(Instruction { variant, kind, raw })
Inst(variant, kind, inst) ==
    Some([variant |-> variant, kind |-> kind, raw |-> inst])
\* The same for a kind looked up in a table (the `?` returns None).
InstOf(variant, kind, inst) ==
    IF kind = None THEN None ELSE Inst(variant, kind[1], inst)

VariantR(rd, rs1, rs2) == [type |-> "R", rd |-> rd, rs1 |-> rs1, rs2 |-> rs2]
VariantI(val, rd, rs1) == [type |-> "I", val |-> val, rd |-> rd, rs1 |-> rs1]
VariantS(val, rs1, rs2) == [type |-> "S", val |-> val, rs1 |-> rs1, rs2 |-> rs2]
VariantB(val, rs1, rs2) == [type |-> "B", val |-> val, rs1 |-> rs1, rs2 |-> rs2]
VariantU(val, rd) == [type |-> "U", val |-> val, rd |-> rd]
VariantJ(val, rd) == [type |-> "J", val |-> val, rd |-> rd]

\* Type::decode, the Type::R arm
DecodeR(B, inst) ==
    LET opcode == AndW(inst, 127)
        rs1 == BitAnd(ShrW(inst, 15), 31)
        rs2 == BitAnd(ShrW(inst, 20), 31)
        rd == BitAnd(ShrW(inst, 7), 31)
        funct3 == BitAnd(ShrW(inst, 12), 7)
        funct7 == BitAnd(ShrW(inst, 25), 127)
    IN  InstOf(VariantR(rd, rs1, rs2), r_kind_get(B, opcode, funct3, funct7), inst)

\* Type::decode, the Type::I arm
DecodeI(B, inst) ==
    LET opcode == AndW(inst, 127)
        imm == BitAnd(ShrW(inst, 20), 4095)
        rs1 == BitAnd(ShrW(inst, 15), 31)
        funct3 == BitAnd(ShrW(inst, 12), 7)
        rd == BitAnd(ShrW(inst, 7), 31)
    IN  IF opcode = 115
          THEN \* ECALL and EBREAK instructions
               Inst(VariantI(0, 0, 0), IF imm = 0 THEN "ECALL" ELSE "EBREAK", inst)
        ELSE IF supports_rv64(B) /\ opcode = 27
          THEN LET shifttop == BitAnd(Shr(imm, 6), 127)
                   shamt == BitAnd(imm, 31)
                   kind == IF funct3 = 0 THEN Some("ADDIW")
                           ELSE IF funct3 = 1 THEN Some("SLLIW")
                           ELSE IF funct3 = 5 /\ shifttop = 0 THEN Some("SRLIW")
                           ELSE IF funct3 = 5 /\ shifttop # 0 THEN Some("SRAIW")
                           ELSE None
               IN  InstOf(VariantI(shamt, rd, rs1), kind, inst)
        ELSE IF funct3 \in {1, 5}
          THEN LET shifttop == BitAnd(Shr(imm, 6), 63)
                   \* the shift amount
                   shimm == IF supports_rv64(B) THEN BitAnd(imm, 63)
                            ELSE BitAnd(imm, 31)
                   kind == IF funct3 = 1 THEN "SLLI"
                           ELSE IF shifttop = 0 THEN "SRLI"
                           ELSE "SRAI"
               IN  Inst(VariantI(shimm, rd, rs1), kind, inst)
        ELSE \* Sign extend the immediate
             InstOf(VariantI(SignExtend(imm, 20), rd, rs1),
                    i_kind_get(B, opcode, funct3), inst)

\* Type::decode, the Type::S arm
DecodeS(B, inst) ==
    LET opcode == AndW(inst, 127)
        imm7 == BitAnd(ShrW(inst, 25), 127)
        imm == BitOr(Shl(imm7, 5), BitAnd(ShrW(inst, 7), 15))
        rs1 == BitAnd(ShrW(inst, 15), 31)
        rs2 == BitAnd(ShrW(inst, 20), 31)
        funct3 == BitAnd(ShrW(inst, 12), 7)
    IN  InstOf(VariantS(SignExtend(imm, 20), rs1, rs2),
               s_kind_get(B, opcode, funct3), inst)

\* Type::decode, the Type::U arm
DecodeU(B, inst) ==
    LET opcode == AndW(inst, 127)
        rd == BitAnd(ShrW(inst, 7), 31)
        imm == UpperAsI32(inst)
        kind == IF opcode = 55 THEN Some("LUI")
                ELSE IF opcode = 23 THEN Some("AUIPC")
                ELSE None
    IN  InstOf(VariantU(imm, rd), kind, inst)

\* Type::decode, the Type::B arm
DecodeB(B, inst) ==
    LET opcode == AndW(inst, 127)
        imm12105 == BitAnd(ShrW(inst, 25), 127)
        imm4111 == BitAnd(ShrW(inst, 7), 31)
        imm12 == Shr(BitAnd(imm12105, 64), 6)
        imm105 == BitAnd(imm12105, 63)
        imm41 == Shr(BitAnd(imm4111, 30), 1)
        imm11 == BitAnd(imm4111, 1)
        imm == BitOr(BitOr(Shl(imm12, 12), Shl(imm11, 11)),
                     BitOr(Shl(imm105, 5), Shl(imm41, 1)))
        rs1 == BitAnd(ShrW(inst, 15), 31)
        rs2 == BitAnd(ShrW(inst, 20), 31)
        funct3 == BitAnd(ShrW(inst, 12), 7)
    IN  InstOf(VariantB(SignExtend(imm, 19), rs1, rs2),
               b_kind_get(B, opcode, funct3), inst)

\* Type::decode, the Type::J arm
DecodeJ(B, inst) ==
    LET opcode == AndW(inst, 127)
        \* (inst & 0xFFFF_F000) >> 12
        imm == ShrW(inst, 12)
        rd == BitAnd(ShrW(inst, 7), 31)
        imm20 == BitAnd(Shr(imm, 19), 1)
        imm101 == BitAnd(Shr(imm, 9), 1023)
        imm11 == BitAnd(Shr(imm, 8), 1)
        imm1912 == BitAnd(imm, 255)
        imm_sign == BitOr(BitOr(Shl(imm20, 20), Shl(imm1912, 12)),
                          BitOr(Shl(imm11, 11), Shl(imm101, 1)))
        kind == IF opcode = 111 THEN Some("JAL") ELSE None
    IN  InstOf(VariantJ(SignExtend(imm_sign, 11), rd), kind, inst)

\* Type::decode
TypeDecode(B, type, inst) ==
    CASE type = "R" -> DecodeR(B, inst)
      [] type = "I" -> DecodeI(B, inst)
      [] type = "S" -> DecodeS(B, inst)
      [] type = "U" -> DecodeU(B, inst)
      [] type = "B" -> DecodeB(B, inst)
      [] type = "J" -> DecodeJ(B, inst)

\* decode::<B>(raw_inst)
decode(B, raw_inst) ==
    LET opcode == AndW(raw_inst, 127)
        variant == instruction_type(opcode)
    IN  IF variant = None THEN None ELSE TypeDecode(B, variant[1], raw_inst)

\* Display for Kind (kind_enum!)
KindName ==
    [ADDI |-> "addi", SLTI |-> "slti", SLTIU |-> "sltiu", ANDI |-> "andi",
     ORI |-> "ori", XORI |-> "xori", SLLI |-> "slli", SRLI |-> "srli",
     SRAI |-> "srai", ADD |-> "add", SLT |-> "slt", SLTU |-> "sltu",
     AND |-> "and", OR |-> "or", XOR |-> "xor", SLL |-> "sll", SLR |-> "slr",
     SUB |-> "sub", SRL |-> "srl", SRA |-> "sra", LUI |-> "lui",
     AUIPC |-> "auipc", JAL |-> "jal", JALR |-> "jalr", BEQ |-> "beq",
     BNE |-> "bne", BLT |-> "blt", BGE |-> "bge", BLTU |-> "bltu",
     BGEU |-> "bgeu", LW |-> "lw", LH |-> "lh", LB |-> "lb", LHU |-> "lhu",
     LBU |-> "lbu", SW |-> "sw", SH |-> "sh", SB |-> "sb", FENCE |-> "fence",
     FENCE_I |-> "fence_i", ECALL |-> "ecall", EBREAK |-> "ebreak",
     LWU |-> "lwu", LD |-> "ld", SD |-> "sd", ADDIW |-> "addiw",
     SLLIW |-> "slliw", SRLIW |-> "srliw", SRAIW |-> "sraiw", ADDW |-> "addw",
     SUBW |-> "subw", SLLW |-> "sllw", SRLW |-> "srlw", SRAW |-> "sraw"]

HexDigit ==
    <<"0", "1", "2", "3", "4", "5", "6", "7", "8", "9", "a", "b", "c", "d", "e", "f">>

\* {:x} of a non-negative integer
RECURSIVE HexNat(_)
HexNat(n) ==
    IF n < 16 THEN HexDigit[n + 1]
    ELSE HexNat(n \div 16) \o HexDigit[(n % 16) + 1]

RECURSIVE Pad4(_)
Pad4(str) == IF Len(str) < 4 THEN Pad4("0" \o str) ELSE str

\* {:x} of an i32: a negative value prints as its two's complement, whose
\* upper half is at least 0x8000 (four digits) and whose lower half is
\* padded to four digits.
LowerHex(v) ==
    IF v >= 0 THEN HexNat(v)
    ELSE HexNat(v \div 65536 + 65536) \o Pad4(HexNat(v % 65536))

\* {} of an XRegister: the decimal index
Reg(r) == "r" \o ToString(r)

\* Display for Variant
VariantToString(v) ==
    CASE v.type = "R" -> Reg(v.rd) \o " " \o Reg(v.rs1) \o " " \o Reg(v.rs2)
      [] v.type = "I" -> Reg(v.rd) \o " " \o Reg(v.rs1) \o " 0x" \o LowerHex(v.val)
      [] v.type \in {"S", "B"} ->
             "0x" \o LowerHex(v.val) \o " " \o Reg(v.rs1) \o " " \o Reg(v.rs2)
      [] v.type \in {"U", "J"} -> Reg(v.rd) \o " 0x" \o LowerHex(v.val)

\* Display for Instruction
to_string(i) ==
    IF i.kind \in {"ECALL", "EBREAK"} THEN KindName[i.kind]
    ELSE KindName[i.kind] \o " " \o VariantToString(i.variant)


\* A u32 from its upper and lower 16 bits
Word(hi, lo) == [hi |-> hi, lo |-> lo]

\* The 32-bit word with the given fields at the positions of the RISC-V base
\* formats: opcode [6:0], rd [11:7], funct3 [14:12], rs1 [19:15],
\* rs2 [24:20], funct7 [31:25].
Encode(opcode, rd, funct3, rs1, rs2, funct7) ==
    Word((rs1 \div 2) + rs2 * 16 + funct7 * 512,
         opcode + rd * 128 + funct3 * 4096 + (rs1 % 2) * 32768)

\* The (raw, text) pairs of the tests of parse.rs that the specification
\* lists, in its order:
\* 0x0B040413, 0xC00B4B13, 0x01093403, 0x00000073, 0x00269693,
\* 0x43F55513, 0x00011537, 0x00B70723, 0x040B8463, 0x00C000EF, 0x0020873B
TestTable ==
    {
      [raw |-> Word(2820, 1043), text |-> "addi r8 r8 0xb0"],
      [raw |-> Word(49163, 19219), text |-> "xori r22 r22 0xfffffc00"],
      [raw |-> Word(265, 13315), text |-> "ld r8 r18 0x10"],
      [raw |-> Word(0, 115), text |-> "ecall"],
      [raw |-> Word(38, 38547), text |-> "slli r13 r13 0x2"],
      [raw |-> Word(17397, 21779), text |-> "srai r10 r10 0x3f"],
      [raw |-> Word(1, 5431), text |-> "lui r10 0x11000"],
      [raw |-> Word(183, 1827), text |-> "sb 0xe r14 r11"],
      [raw |-> Word(1035, 33891), text |-> "beq 0x48 r23 r0"],
      [raw |-> Word(192, 239), text |-> "jal r1 0xc"],
      [raw |-> Word(32, 34619), text |-> "addw r14 r1 r2"]
    }

\* The thirteen opcodes instruction_type maps.
MappedOpcodes == {3, 15, 19, 27, 103, 115, 23, 55, 51, 59, 35, 99, 111}

\* The words decode is called with: the test words, every combination of a
\* few values of each field under the mapped opcodes, and every 7-bit opcode
\* with every funct3.
RawInputs ==
    {t.raw : t \in TestTable}
    \cup {Encode(op, rd, f3, rs1, rs2, f7) :
            op \in MappedOpcodes, rd \in {0, 14, 31}, f3 \in 0 .. 7,
            rs1 \in {0, 31}, rs2 \in {0, 2, 31}, f7 \in {0, 1, 32, 64, 127}}
    \cup {Encode(op, 1, f3, 1, 1, 0) : op \in 0 .. 127, f3 \in 0 .. 7}

InitDecode ==
    /\ base \in Bases
    /\ raw \in RawInputs
    /\ decoded = None
    /\ text = ""
    /\ dpc = "fetched"
    /\ RegIdle /\ MemIdle /\ MmuIdle

\* let decoded = decode::<B>(raw)
Decode ==
    /\ dpc = "fetched"
    /\ decoded' = decode(base, raw)
    /\ dpc' = "decoded"
    /\ UNCHANGED <<base, raw, text, regVars, memVars, mmuVars>>

\* decoded.unwrap().to_string()
Show ==
    /\ dpc = "decoded"
    /\ decoded # None
    /\ text' = to_string(decoded[1])
    /\ dpc' = "shown"
    /\ UNCHANGED <<base, raw, decoded, regVars, memVars, mmuVars>>

NextDecode ==
    \/ Decode
    \/ Show

SpecDecode == InitDecode /\ [][NextDecode]_vars

(***************************************************************************)
(* Claims about the decoder                                                *)
(***************************************************************************)

\* The fields of the word being decoded, by their architectural positions.
RawOpcode == raw.lo % 128
RawFunct3 == (raw.lo \div 4096) % 8
RawFunct7 == raw.hi \div 512

\* C5: on RV64I each raw word of the test table decodes to Some
\* instruction whose rendering is the listed text.
C5_TestTable ==
    \A t \in TestTable :
        (base = "RV64I" /\ raw = t.raw /\ dpc # "fetched")
            => /\ decoded # None
               /\ to_string(decoded[1]) = t.text
               /\ dpc = "shown" => text = t.text

C5_Witness ==
    /\ base = "RV64I" /\ dpc = "shown"
    /\ raw = Word(49163, 19219)
    /\ text = "xori r22 r22 0xfffffc00"


\* The mnemonics that exist only in RV64I.
WKinds ==
    {"ADDW", "SUBW", "SLLW", "SRLW", "SRAW", "ADDIW", "SLLIW", "SRLIW",
     "SRAIW", "LD", "SD", "LWU"}

\* C6: on RV32I every raw word that decodes to an RV64-only mnemonic on
\* RV64I yields None.
C6_Rv32RejectsWForms ==
    (/\ base = "RV32I" /\ dpc # "fetched"
     /\ decode("RV64I", raw) # None
     /\ decode("RV64I", raw)[1].kind \in WKinds)
        => decoded = None

\* The (opcode, funct3) pairs, with funct7 for the R type, of the
\* instructions the specification's decoder section defines on base B.  The
\* U and J opcodes carry no funct3, and the system opcode 1110011 is told
\* apart by its immediate alone.
DefinedEncoding(B, opcode, funct3, funct7) ==
    \/ opcode \in {55, 23, 111, 115}
    \/ opcode = 19
    \/ opcode = 3 /\ funct3 \in {0, 1, 2, 4, 5}
    \/ opcode = 3 /\ funct3 \in {3, 6} /\ B = "RV64I"
    \/ opcode = 27 /\ funct3 \in {0, 1, 5} /\ B = "RV64I"
    \/ opcode = 103 /\ funct3 = 0
    \/ opcode = 15 /\ funct3 \in {0, 1}
    \/ opcode = 35 /\ funct3 \in {0, 1, 2}
    \/ opcode = 35 /\ funct3 = 3 /\ B = "RV64I"
    \/ opcode = 99 /\ funct3 \in {0, 1, 4, 5, 6, 7}
    \/ opcode = 51 /\ <<funct3, funct7>> \in
           {<<0, 0>>, <<0, 32>>, <<1, 0>>, <<2, 0>>, <<3, 0>>, <<4, 0>>,
            <<5, 0>>, <<5, 32>>, <<6, 0>>, <<7, 0>>}
    \/ opcode = 59 /\ B = "RV64I" /\ <<funct3, funct7>> \in
           {<<0, 0>>, <<0, 32>>, <<1, 0>>, <<5, 0>>, <<5, 32>>, <<5, 64>>}

\* C7: for either base, a word whose (opcode, funct3) pair (with funct7
\* for the R type) is not a defined instruction encoding decodes to None.
C7_UnknownIsNone ==
    (dpc # "fetched" /\ ~DefinedEncoding(base, RawOpcode, RawFunct3, RawFunct7))
        => decoded = None

\* C8: on both bases the Zicsr words (opcode 1110011, funct3 # 000) and
\* the M-extension words (opcode 0110011, funct7 = 0000001) decode to None.
C8_UnsupportedIsNone ==
    (/\ dpc # "fetched"
     /\ \/ RawOpcode = 115 /\ RawFunct3 # 0
        \/ RawOpcode = 51 /\ RawFunct7 = 1)
        => decoded = None

\* C9: a word whose low seven bits are none of the thirteen mapped
\* opcodes decodes to None on both bases.
C9_UnmappedOpcodeIsNone ==
    (/\ dpc # "fetched"
     /\ RawOpcode \notin {3, 15, 19, 27, 103, 115, 23, 55, 51, 59, 35, 99, 111})
        => decoded = None

C9_Witness ==
    /\ dpc = "decoded" /\ decoded = None
    /\ RawOpcode = 7 /\ RawFunct3 = 1


(***************************************************************************)
(* Physical memory and MMIO                                                *)
(*                                                                         *)
(* A value of one of the integer types is carried as its two's complement  *)
(* pattern in 16-bit limbs, least significant first (u64 and u32 values    *)
(* exceed the model checker's integers); a one-byte value is one limb      *)
(* below 256.                                                              *)
(***************************************************************************)

\* ram.len(): MEMORY_SIZE is 0x1000000 in the source; the model keeps the
\* buffer a few bytes long.
MEMORY_SIZE == 8
\* The number of operations performed on one Memory.
MaxOps == 3

\* What a call that panics returns: no value.
Aborted == <<>>

\* value_impl!(u8, i8, u16, i16, u32, i32, u64, i64)
Types == {"u8", "i8", "u16", "i16", "u32", "i32", "u64", "i64"}

\* std::mem::size_of::<V>()
size_of(ty) ==
    CASE ty \in {"u8", "i8"} -> 1
      [] ty \in {"u16", "i16"} -> 2
      [] ty \in {"u32", "i32"} -> 4
      [] ty \in {"u64", "i64"} -> 8

\* The pattern of the integer n in k limbs of 16 bits.
RECURSIVE LimbsOf(_, _)
LimbsOf(n, k) ==
    IF k = 0 THEN <<>> ELSE <<n % 65536>> \o LimbsOf(n \div 65536, k - 1)

\* The value n of type ty.
Value(ty, n) ==
    IF size_of(ty) = 1 THEN <<n % 256>> ELSE LimbsOf(n, size_of(ty) \div 2)

\* The values written: those of the test of memory.rs (12u8, 1337u32,
\* -1234i64) in every type that holds them, and one more per type.
Values(ty) ==
    CASE ty = "u8" -> {Value(ty, 12), Value(ty, 255)}
      [] ty = "i8" -> {Value(ty, 12), Value(ty, -128)}
      [] ty \in {"u16", "u32", "u64"} -> {Value(ty, 1337), Value(ty, 65535)}
      [] ty \in {"i16", "i32", "i64"} -> {Value(ty, 1337), Value(ty, -1234)}

\* to_le_bytes written most significant byte first.
RECURSIVE to_bytes_be(_, _)
to_bytes_be(ty, val) ==
    IF size_of(ty) = 1 THEN <<val[1]>>
    ELSE IF val = <<>> THEN <<>>
    ELSE to_bytes_be(ty, Tail(val)) \o <<val[1] \div 256, val[1] % 256>>
\* MemoryValue::to_bytes: self.to_le_bytes()
RECURSIVE to_bytes(_, _)
to_bytes(ty, val) ==
    IF size_of(ty) = 1 THEN <<val[1]>>
    ELSE IF val = <<>> THEN <<>>
    ELSE <<val[1] % 256, val[1] \div 256>> \o to_bytes(ty, Tail(val))

\* from_le_bytes of an even number of bytes
RECURSIVE LimbsFromLe(_)
LimbsFromLe(bytes) ==
    IF bytes = <<>> THEN <<>>
    ELSE <<bytes[1] + 256 * bytes[2]>> \o LimbsFromLe(Tail(Tail(bytes)))

\* MemoryValue::from_bytes: Self::from_le_bytes(bytes.try_into().unwrap())
from_bytes(ty, bytes) ==
    IF Len(bytes) # size_of(ty) THEN Aborted
    ELSE IF size_of(ty) = 1 THEN <<bytes[1]>>
    ELSE LimbsFromLe(bytes)

\* An Mmio device: it maps the addresses lo..hi and keeps the bytes written
\* to it (a byte never written reads 0).
Device(id, lo, hi) == [id |-> id, lo |-> lo, hi |-> hi, cells |-> <<>>]

\* Mmio::maps_at
maps_at(mmio, addr) == mmio.lo <= addr /\ addr <= mmio.hi
\* Mmio::read
mmio_read(mmio, addr) ==
    IF addr \in DOMAIN mmio.cells THEN mmio.cells[addr] ELSE 0
\* Mmio::write, for the bytes of one access starting at addr
mmio_write(mmio, addr, bytes) ==
    [mmio EXCEPT !.cells =
        [a \in DOMAIN mmio.cells \cup (addr .. addr + Len(bytes) - 1) |->
            IF a \in addr .. addr + Len(bytes) - 1 THEN bytes[a - addr + 1]
            ELSE mmio.cells[a]]]

\* The devices registered: two that overlap at address 0, and one at the
\* first address past the buffer.
Devices ==
    {Device("A", 0, 0), Device("B", 0, 1), Device("C", MEMORY_SIZE, MEMORY_SIZE)}

\* The addresses accessed: the first and last byte of the buffer and the
\* first address past it.
Addrs == {0, MEMORY_SIZE - 1, MEMORY_SIZE}

\* Memory::new
MemoryNew ==
    /\ ram = [i \in 0 .. MEMORY_SIZE - 1 |-> 0]
    /\ mmios = <<>>
    /\ memOp = [name |-> "new", ty |-> "u8", addr |-> 0, val |-> <<>>]
    /\ memRet = <<>>
    /\ memPanicked = FALSE
    /\ nops = 0

\* self.mmios.iter().position(|mmio| mmio.maps_at(addr)): 0 when there is none
RECURSIVE FindFrom(_, _)
FindFrom(addr, i) ==
    IF i > Len(mmios) THEN 0
    ELSE IF maps_at(mmios[i], addr) THEN i
    ELSE FindFrom(addr, i + 1)
\* The last device of the list that maps addr, 0 when there is none.
find_last(addr) ==
    IF \E i \in 1 .. Len(mmios) : maps_at(mmios[i], addr)
    THEN CHOOSE i \in 1 .. Len(mmios) :
            /\ maps_at(mmios[i], addr)
            /\ \A j \in i + 1 .. Len(mmios) : ~maps_at(mmios[j], addr)
    ELSE 0
find(addr) == FindFrom(addr, 1)

\* let addr = addr % self.ram.len() as u64
ram_len == Cardinality(DOMAIN ram)
\* The address taken as it is.
Wrap_none(addr) == addr
Wrap(addr) == addr % ram_len


\* Whether self.ram[addr as usize + i] is in bounds for every i < size.
InRam(addr, size) == addr + size <= ram_len

\* Memory::read: the value read, or Aborted when an index into ram is out of
\* bounds.
read(ty, address) ==
    LET size == size_of(ty)
        addr == Wrap(address)
        m    == find(addr)
    IN  IF m # 0
        THEN from_bytes(ty, [i \in 1 .. size |-> mmio_read(mmios[m], addr + i - 1)])
        ELSE IF InRam(addr, size)
        THEN from_bytes(ty, [i \in 1 .. size |-> ram[addr + i - 1]])
        ELSE Aborted

\* The ram after the bytes are stored from addr on; a store past the end
\* panics after the bytes before it are stored.
RamStore(addr, bytes) ==
    [a \in DOMAIN ram |->
        IF a >= addr /\ a < addr + Len(bytes) THEN bytes[a - addr + 1] ELSE ram[a]]

\* Memory::register
register(mmio) ==
    /\ ~memPanicked
    /\ nops < MaxOps
    /\ \A i \in 1 .. Len(mmios) : mmios[i].id # mmio.id
    /\ mmios' = Append(mmios, mmio)
    /\ memOp' = [name |-> "register", ty |-> "u8", addr |-> mmio.lo, val |-> <<>>]
    /\ memRet' = <<>>
    /\ nops' = nops + 1
    /\ UNCHANGED <<ram, memPanicked, regVars, decVars, mmuVars>>

\* Memory::read as an operation
Read(ty, address) ==
    /\ ~memPanicked
    /\ nops < MaxOps
    /\ memOp' = [name |-> "read", ty |-> ty, addr |-> address, val |-> <<>>]
    /\ memRet' = read(ty, address)
    /\ memPanicked' = (read(ty, address) = Aborted)
    /\ nops' = nops + 1
    /\ UNCHANGED <<ram, mmios, regVars, decVars, mmuVars>>

\* Memory::write
write(ty, address, val) ==
    LET addr  == Wrap(address)
        bytes == to_bytes(ty, val)
        m     == find(addr)
    IN  /\ ~memPanicked
        /\ nops < MaxOps
        /\ IF m # 0
           THEN /\ mmios' = [mmios EXCEPT ![m] = mmio_write(mmios[m], addr, bytes)]
                /\ UNCHANGED <<ram, memPanicked>>
           ELSE /\ ram' = RamStore(addr, bytes)
                /\ memPanicked' = ~InRam(addr, Len(bytes))
                /\ UNCHANGED mmios
        /\ memOp' = [name |-> "write", ty |-> ty, addr |-> address, val |-> val]
        /\ memRet' = <<>>
        /\ nops' = nops + 1
        /\ UNCHANGED <<regVars, decVars, mmuVars>>

InitMemory == MemoryNew /\ RegIdle /\ DecIdle /\ MmuIdle

NextMemory ==
    \/ \E mmio \in Devices : register(mmio)
    \/ \E ty \in Types, address \in Addrs : Read(ty, address)
    \/ \E ty \in Types, address \in Addrs : \E val \in Values(ty) : write(ty, address, val)

SpecMemory == InitMemory /\ [][NextMemory]_vars

\* C10: a value of any of the eight types written at an address is read back
\* at that address with the same type, when no device maps the address and
\* the bytes of the access lie in the RAM buffer.
C10_WriteReadRam ==
    (/\ memOp.name = "write"
     /\ find(Wrap(memOp.addr)) = 0
     /\ InRam(Wrap(memOp.addr), size_of(memOp.ty)))
    => (~memPanicked /\ read(memOp.ty, memOp.addr) = memOp.val)

\* A write of -1234i64 served by the RAM while a device is registered.
C10_Witness ==
    /\ memOp.name = "write"
    /\ memOp.ty = "i64"
    /\ memOp.val = Value("i64", -1234)
    /\ Len(mmios) > 0
    /\ find(Wrap(memOp.addr)) = 0
    /\ read("i64", memOp.addr) = memOp.val


\* The bytes of an access of the given size that device m serves at addr.
MmioBytes(m, addr, size) == [i \in 1 .. size |-> mmio_read(mmios[m], addr + i - 1)]

\* The bytes of ram from addr on.
RamBytes(addr, size) == [i \in 1 .. size |-> ram[addr + i - 1]]

\* C11: the address space is circular. With no device registered, a u8
\* written at an address is read back at that address taken modulo the
\* size and at that address plus one and two times the size (so
\* write<u8>(size, v); read<u8>(0) = v), and in every state the addresses a
\* and a + k * size read the same byte.
C11_Circular ==
    mmios = <<>> =>
        /\ (memOp.name = "write" /\ memOp.ty = "u8") =>
              \A k \in 0 .. 2 :
                  read("u8", (memOp.addr % MEMORY_SIZE) + k * MEMORY_SIZE) = memOp.val
        /\ \A a \in 0 .. MEMORY_SIZE - 1 : \A k \in 1 .. 2 :
              /\ read("u8", a) = <<ram[a]>>
              /\ read("u8", a + k * MEMORY_SIZE) = <<ram[a]>>

\* write<u8>(size, 255) with no device, read back at address 0.
C11_Witness ==
    /\ mmios = <<>>
    /\ memOp.name = "write" /\ memOp.ty = "u8"
    /\ memOp.addr = MEMORY_SIZE
    /\ memOp.val = Value("u8", 255)
    /\ read("u8", 0) = Value("u8", 255)
    /\ ~memPanicked

\* Whether the step is a read or a write of Memory.
AccessStep == nops' = nops + 1 /\ memOp'.name \in {"read", "write"}

\* What it is for device m to serve the access of the step at address a:
\* a write stores the bytes of the value in that device only, a read returns
\* the bytes of that device, and ram is neither modified nor the origin of
\* the value.
ServedBy(m, a) ==
    /\ ram' = ram
    /\ ~memPanicked'
    /\ \A j \in 1 .. Len(mmios) : j # m => mmios'[j] = mmios[j]
    /\ Len(mmios') = Len(mmios)
    /\ memOp'.name = "write" =>
          mmios'[m] = mmio_write(mmios[m], a, to_bytes(memOp'.ty, memOp'.val))
    /\ memOp'.name = "read" =>
          /\ mmios' = mmios
          /\ memRet' = from_bytes(memOp'.ty, MmioBytes(m, a, size_of(memOp'.ty)))

ServedByRam(a) ==
    /\ mmios' = mmios
    /\ ~memPanicked'
    /\ memOp'.name = "write" =>
          ram' = [b \in DOMAIN ram |->
                    IF b \in a .. a + size_of(memOp'.ty) - 1
                    THEN to_bytes(memOp'.ty, memOp'.val)[b - a + 1]
                    ELSE ram[b]]
    /\ memOp'.name = "read" =>
          /\ ram' = ram
          /\ memRet' = from_bytes(memOp'.ty, RamBytes(a, size_of(memOp'.ty)))

\* C13 as stated: an access at an address >= size is never served from the
\* ram buffer; a device that maps that address serves it, or the access
\* faults.
C13_HighNeverRam ==
    [][(AccessStep /\ memOp'.addr >= MEMORY_SIZE) =>
        \/ memPanicked'
        \/ \E m \in 1 .. Len(mmios) :
              /\ maps_at(mmios[m], memOp'.addr)
              /\ ServedBy(m, memOp'.addr)]_vars

\* C13, amended: an access at an address >= size is the access at that
\* address modulo the size. The first device that maps addr mod size serves
\* it; when there is none and the bytes from addr mod size on lie in ram,
\* ram serves it without a fault; a device is never asked about the
\* address itself, so one that maps only addresses >= size is never
\* touched.
C13_HighWraps ==
    [][(AccessStep /\ memOp'.addr >= MEMORY_SIZE) =>
        LET a == memOp'.addr % MEMORY_SIZE IN
        /\ \A m \in 1 .. Len(mmios) :
              (/\ maps_at(mmios[m], a)
               /\ \A j \in 1 .. m - 1 : ~maps_at(mmios[j], a))
              => ServedBy(m, a)
        /\ ((\A m \in 1 .. Len(mmios) : ~maps_at(mmios[m], a))
            /\ a + size_of(memOp'.ty) <= MEMORY_SIZE)
              => ServedByRam(a)
        /\ \A m \in 1 .. Len(mmios) :
              mmios[m].lo >= MEMORY_SIZE => mmios'[m] = mmios[m]]_vars

\* A u64 written at the address size while the device that maps the address
\* size is registered: the value is in ram from byte 0 on, the device holds
\* nothing.
C13_Witness ==
    /\ memOp.name = "write" /\ memOp.ty = "u64"
    /\ memOp.addr = MEMORY_SIZE
    /\ Len(mmios) = 1 /\ mmios[1].id = "C" /\ mmios[1].cells = <<>>
    /\ maps_at(mmios[1], memOp.addr)
    /\ RamBytes(0, 8) = to_bytes("u64", Value("u64", 1337))
    /\ ~memPanicked


(***************************************************************************)
(* Memory management unit (memory/mmu.rs)                                  *)
(*                                                                         *)
(* A u64 is carried as four 16-bit limbs, least significant first; a       *)
(* B::Addr of RV32I is a u64 whose two upper limbs are zero (to_u64).      *)
(***************************************************************************)

\* The u64 with the given 16-bit quarters, most significant first.
U64(q3, q2, q1, q0) == <<q0, q1, q2, q3>>

\* Bit i of the u64 v.
BitOf(v, i) == (v[(i \div 16) + 1] \div 2 ^ (i % 16)) % 2

\* (v >> lo) & ((1 << width) - 1), for a field of fewer than 31 bits
RECURSIVE Field(_, _, _)
Field(v, lo, width) ==
    IF width = 0 \/ lo > 63 THEN 0
    ELSE BitOf(v, lo) + 2 * Field(v, lo + 1, width - 1)

\* v & ((1 << width) - 1) as a u64
MaskLow(v, width) ==
    [j \in 1 .. 4 |->
        IF width >= 16 * j THEN v[j]
        ELSE IF width <= 16 * (j - 1) THEN 0
        ELSE Field(v, 16 * (j - 1), width - 16 * (j - 1))]

\* Base::XLEN
XLEN(B) == IF B = "RV32I" THEN 32 ELSE 64

\* decode_satp_reg with the asid of RV32 masked with 0xFF.
decode_satp_reg_asid8(B, value) ==
    IF XLEN(B) = 32
    THEN [mode |-> Field(value, 31, 8), asid |-> Field(value, 22, 8),
          ppn |-> MaskLow(value, 22)]
    ELSE [mode |-> Field(value, 60, 4), asid |-> Field(value, 44, 16),
          ppn |-> MaskLow(value, 44)]
\* decode_satp_reg: (mode, asid, ppn); (value >> 31) as u8 keeps eight bits
decode_satp_reg(B, value) ==
    IF XLEN(B) = 32
    THEN [mode |-> Field(value, 31, 8), asid |-> Field(value, 22, 9),
          ppn |-> MaskLow(value, 22)]
    ELSE [mode |-> Field(value, 60, 4), asid |-> Field(value, 44, 16),
          ppn |-> MaskLow(value, 44)]

\* enum AddressingMode
AddressingMode == {"None", "SV32", "SV39"}

\* Result<PhysAddr, Exception>
Ok(pa) == [tag |-> "Ok", val |-> pa]
NoRet == [tag |-> "none", val |-> <<>>]

\* The values SATP holds when the Mmu is constructed: zero, the values of
\* the tests of mmu.rs, and values of every kind of mode field.
SatpInputs(B) ==
    IF B = "RV32I"
    THEN {U64(0, 0, 0, 0), U64(0, 0, 52727, 27511), U64(0, 0, 32768, 1),
          U64(0, 0, 32767, 65535), U64(0, 0, 65535, 65535), U64(0, 0, 0, 4660)}
    ELSE {U64(0, 0, 0, 0), U64(35271, 14964, 23125, 19387),
          U64(32768, 0, 0, 1), U64(36864, 0, 0, 1), U64(4096, 0, 0, 1),
          U64(65535, 65535, 65535, 65535), U64(4095, 65535, 65535, 65535),
          U64(0, 0, 32768, 1), U64(40960, 0, 0, 0)}

\* The virtual addresses translated.
VirtAddrs ==
    {U64(0, 0, 0, 0), U64(0, 0, 0, 4096), U64(0, 0, 0, 4097),
     U64(0, 0, 4660, 20480), U64(0, 0, 65535, 65535),
     U64(0, 63, 65535, 61440), U64(65535, 65535, 65535, 65535)}

\* The registers the Mmu is given: Registers::new() then
\* write_csr(SATP, satp).
InitMmu ==
    /\ \E B \in Bases : \E satp \in SatpInputs(B) :
          /\ base = B
          /\ csr = [r \in {SATP} |-> satp]
          /\ regOp = [name |-> "write_csr", reg |-> SATP, val |-> satp]
    /\ xregs = [i \in 0 .. NumXRegs - 1 |-> 0]
    /\ pc = 0 /\ regRet = 0 /\ regPanicked = FALSE
    /\ raw = [hi |-> 0, lo |-> 0] /\ decoded = None /\ text = "" /\ dpc = "idle"
    /\ MemIdle /\ MmuIdle


\* Mmu::new. The (9, 64) arm names AddressingMode::SV48, which the enum does
\* not define: the outcomes are those of the two ways the arm can be made to
\* build, an Mmu whose mode is that variant, or no arm and the panic! of the
\* last one.
MmuNew ==
    LET mode == decode_satp_reg(base, read_csr(SATP)).mode
        xlen == XLEN(base)
        am   == CASE mode = 0 /\ xlen = 32 -> {"None"}
                  [] mode = 1 /\ xlen = 32 -> {"SV32"}
                  [] mode = 0 /\ xlen = 64 -> {"None"}
                  [] mode = 8 /\ xlen = 64 -> {"SV39"}
                  [] mode = 9 /\ xlen = 64 -> {"SV48", "panic"}
                  [] OTHER -> {"panic"}
    IN  /\ mmu = None
        /\ ~mmuPanicked
        /\ mmuOp' = [name |-> "new", va |-> <<>>]
        /\ mmuRet' = NoRet
        /\ \E m \in am :
             IF m = "panic"
             THEN mmuPanicked' = TRUE /\ mmu' = None
             ELSE mmuPanicked' = FALSE /\ mmu' = Some([base |-> base, mode |-> m])
        /\ UNCHANGED <<regVars, decVars, memVars>>

\* Mmu::translate_addr returning the base of the page of va.
translate_addr_page(va) ==
    /\ mmu # None
    /\ ~mmuPanicked
    /\ mmuOp' = [name |-> "translate_addr", va |-> va]
    /\ IF mmu[1].mode = "None"
       THEN mmuRet' = Ok([va EXCEPT ![1] = va[1] - (va[1] % 4096)])
            /\ mmuPanicked' = FALSE
       ELSE mmuRet' = NoRet /\ mmuPanicked' = TRUE
    /\ UNCHANGED <<mmu, regVars, decVars, memVars>>
\* Mmu::translate_addr. In a mode other than None the call ends in a panic:
\* assert!(matches!(self.mode, SV32)) fails for every mode but SV32, and for
\* SV32 the address of the first PTE is computed and dropped before todo!().
translate_addr(va) ==
    /\ mmu # None
    /\ ~mmuPanicked
    /\ mmuOp' = [name |-> "translate_addr", va |-> va]
    /\ IF mmu[1].mode = "None"
       THEN mmuRet' = Ok(va) /\ mmuPanicked' = FALSE
       ELSE mmuRet' = NoRet /\ mmuPanicked' = TRUE
    /\ UNCHANGED <<mmu, regVars, decVars, memVars>>

NextMmu ==
    \/ MmuNew
    \/ \E va \in VirtAddrs : translate_addr(va)

SpecMmu == InitMmu /\ [][NextMmu]_vars


\* The mode field of the SATP the Mmu is constructed with.
SatpMode == decode_satp_reg(base, read_csr(SATP)).mode

\* C14: for an Mmu constructed while SATP.mode = 0, on either base, the
\* construction succeeds and the translation of every virtual address
\* returns Ok of the physical address equal to it, with no fault.
C14_BareIdentity ==
    SatpMode = 0 =>
        /\ ~mmuPanicked
        /\ mmuOp.name = "new" => mmu = Some([base |-> base, mode |-> "None"])
        /\ mmuOp.name = "translate_addr" => mmuRet = Ok(mmuOp.va)

\* The bare translation of 0xFFFF_FFFF_FFFF_FFFF on RV32I, SATP holding an
\* asid and a ppn.
C14_Witness ==
    /\ base = "RV32I"
    /\ read_csr(SATP) = U64(0, 0, 32767, 65535)
    /\ mmuOp.name = "translate_addr"
    /\ mmuOp.va = U64(65535, 65535, 65535, 65535)
    /\ mmuRet = Ok(U64(65535, 65535, 65535, 65535))

\* C15: in Sv39 mode, with a page table in physical memory that maps the
\* virtual page 1 to the physical page 0x12345 through a leaf PTE with
\* R = W = U = V = 1, the translation of the address 1 * 4096 returns
\* Ok(0x12345 * 4096); the call does not abort. (The Mmu holds no reference
\* to a memory: the table has no part in what the call does.)
C15_Sv39Walk ==
    (/\ mmuOp.name = "translate_addr"
     /\ mmu # None /\ mmu[1].mode = "SV39"
     /\ mmuOp.va = U64(0, 0, 0, 4096))
    => (~mmuPanicked /\ mmuRet = Ok(U64(0, 0, 4660, 20480)))

\* C16: in a paged mode, a translation whose first PTE has V = 0 (the
\* physical memory is all zero) returns one of the three page faults, the
\* one of the access mode; it never panics and never returns Ok.
C16_InvalidPteFaults ==
    (/\ mmuOp.name = "translate_addr"
     /\ mmu # None /\ mmu[1].mode # "None")
    => /\ ~mmuPanicked
       /\ mmuRet.tag = "Err"
       /\ mmuRet.val \in {"LoadPageFault", "StorePageFault", "InstructionPageFault"}


\* Bit i of the non-negative integer n.
IntBit(n, i) == (n \div 2 ^ i) % 2

\* Bit i of the XLEN-bit value put together from a mode, an asid and a ppn
\* at the positions of the architectural layout.
ComposedBit(B, d, i) ==
    IF B = "RV32I"
    THEN IF i < 22 THEN BitOf(d.ppn, i)
         ELSE IF i < 31 THEN IntBit(d.asid, i - 22)
         ELSE IF i = 31 THEN IntBit(d.mode, 0)
         ELSE 0
    ELSE IF i < 44 THEN BitOf(d.ppn, i)
         ELSE IF i < 60 THEN IntBit(d.asid, i - 44)
         ELSE IntBit(d.mode, i - 60)

RECURSIVE ComposedLimb(_, _, _, _)
ComposedLimb(B, d, lo, n) ==
    IF n = 0 THEN 0
    ELSE ComposedBit(B, d, lo) + 2 * ComposedLimb(B, d, lo + 1, n - 1)

\* mode, asid and ppn recomposed
Compose(B, d) == [j \in 1 .. 4 |-> ComposedLimb(B, d, 16 * (j - 1), 16)]

\* C17: decode_satp_reg splits SATP by the architectural layout: the mode,
\* asid and ppn it returns, put back at bit 31, bits 30:22 and bits 21:0 on
\* RV32 (bits 63:60, 59:44 and 43:0 on RV64), give the value back, the mode
\* is below 2 on RV32 and below 16 on RV64, and the two values of the tests
\* decode to (1, 0x137, 0x376B77) and (8, 0x9C73, 0xA745A554BBB).
C17_DecodeSatp ==
    LET value == read_csr(SATP)
        d     == decode_satp_reg(base, value)
    IN  mmuOp.name # "idle" =>
        /\ Compose(base, d) = value
        /\ d.mode < (IF base = "RV32I" THEN 2 ELSE 16)
        /\ (base = "RV32I" /\ value = U64(0, 0, 52727, 27511)) =>
              d = [mode |-> 1, asid |-> 311, ppn |-> U64(0, 0, 55, 27511)]
        /\ (base = "RV64I" /\ value = U64(35271, 14964, 23125, 19387)) =>
              d = [mode |-> 8, asid |-> 40051, ppn |-> U64(0, 2676, 23125, 19387)]

\* The Mmu constructed from the SATP 0xCDF7_6B77 of the RV32I test.
C17_Witness ==
    /\ base = "RV32I"
    /\ read_csr(SATP) = U64(0, 0, 52727, 27511)
    /\ mmuOp.name = "new"
    /\ mmu = Some([base |-> "RV32I", mode |-> "SV32"])
    /\ decode_satp_reg(base, read_csr(SATP)).asid = 311

RawRd == (raw.lo \div 128) % 32
RawImm12 == raw.hi \div 16
Signed12(x) == IF x >= 2048 THEN x - 4096 ELSE x

\* C19: for every S-type word (opcode 0100011) with a defined funct3, the
\* decoded immediate is the sign-extended 12-bit value with
\* imm[11:5] = bits 31:25 and imm[4:0] = bits 11:7 of the word.
C19_STypeImmediate ==
    (dpc # "fetched" /\ RawOpcode = 35 /\ decoded # None) =>
        decoded[1].variant.val = Signed12(RawFunct7 * 32 + RawRd)

\* C20: on either base an I-type word whose opcode is not 0010011 is never
\* decoded as SLLI, SRLI or SRAI: opcode 0000011 with funct3 001 is LH and
\* with funct3 101 is LHU, each with the sign-extended 12-bit immediate, and
\* opcode 0001111 with funct3 001 is FENCE_I.
C20_ShiftOnlyOpImm ==
    dpc # "fetched" =>
        /\ (RawOpcode \in {3, 15, 27, 103, 115} /\ decoded # None) =>
              decoded[1].kind \notin {"SLLI", "SRLI", "SRAI"}
        /\ (RawOpcode = 3 /\ RawFunct3 \in {1, 5}) =>
              /\ decoded # None
              /\ decoded[1].kind = (IF RawFunct3 = 1 THEN "LH" ELSE "LHU")
              /\ decoded[1].variant.val = Signed12(RawImm12)
        /\ (RawOpcode = 15 /\ RawFunct3 = 1) =>
              /\ decoded # None
              /\ decoded[1].kind = "FENCE_I"


\* C21: on RV64I, for opcode 0011011 with funct3 = 101 the kind is SRLIW
\* exactly when bits 31:25 of the word are all zero, and SRAIW exactly when
\* one of them is set.
C21_ShiftWordKind ==
    (dpc # "fetched" /\ base = "RV64I" /\ RawOpcode = 27 /\ RawFunct3 = 5) =>
        /\ decoded # None
        /\ decoded[1].kind = (IF RawFunct7 = 0 THEN "SRLIW" ELSE "SRAIW")

\* C22: for opcode 0010011 with funct3 = 101 the shift amount is the low 6
\* bits of the immediate on RV64 and the low 5 on RV32, and the kind is SRLI
\* exactly when the immediate bits above the shift amount are zero
\* (imm[11:6] on RV64, imm[11:5] on RV32), SRAI otherwise.
C22_ShiftImmKind ==
    (dpc # "fetched" /\ RawOpcode = 19 /\ RawFunct3 = 5) =>
        LET width == IF base = "RV64I" THEN 64 ELSE 32 IN
        /\ decoded # None
        /\ decoded[1].variant.val = RawImm12 % width
        /\ decoded[1].kind = (IF RawImm12 \div width = 0 THEN "SRLI" ELSE "SRAI")

\* C23: on RV64I an R-type word with opcode 0111011 decodes by
\* (funct3, funct7) to ADDW (000, 0000000), SUBW (000, 0100000),
\* SLLW (001, 0000000), SRLW (101, 0000000), SRAW (101, 0100000), and to
\* None with every other pair.
C23_WFormRType ==
    (dpc # "fetched" /\ base = "RV64I" /\ RawOpcode = 59) =>
        LET key == <<RawFunct3, RawFunct7>>
            W == (<<0, 0>> :> "ADDW") @@ (<<0, 32>> :> "SUBW")
                 @@ (<<1, 0>> :> "SLLW") @@ (<<5, 0>> :> "SRLW")
                 @@ (<<5, 32>> :> "SRAW")
        IN  IF key \in DOMAIN W
            THEN decoded # None /\ decoded[1].kind = W[key]
            ELSE decoded = None

\* The 13-bit and 21-bit two's complement values of a field.
Signed13(x) == IF x >= 4096 THEN x - 8192 ELSE x
Signed21(x) == IF x >= 1048576 THEN x - 2097152 ELSE x

\* C24: for every B-type word (opcode 1100011) with funct3 in
\* {000, 001, 100, 101, 110, 111} the immediate has imm[12] = bit 31,
\* imm[10:5] = bits 30:25, imm[4:1] = bits 11:8, imm[11] = bit 7 and
\* imm[0] = 0, sign-extended from 13 bits, so it is even and lies in
\* -4096 .. 4094; funct3 010 and 011 yield None.
C24_BTypeImmediate ==
    (dpc # "fetched" /\ RawOpcode = 99) =>
        IF RawFunct3 \in {2, 3} THEN decoded = None
        ELSE /\ decoded # None
             /\ decoded[1].variant.type = "B"
             /\ decoded[1].variant.val =
                  Signed13((RawFunct7 \div 64) * 4096 + (RawRd % 2) * 2048
                           + (RawFunct7 % 64) * 32 + (RawRd \div 2) * 2)
             /\ decoded[1].variant.val % 2 = 0
             /\ decoded[1].variant.val \in -4096 .. 4094

\* A branch whose immediate is -2: every immediate bit of the word set.
C24_Witness ==
    /\ dpc = "decoded" /\ RawOpcode = 99 /\ RawFunct7 = 127 /\ RawRd = 31
    /\ decoded # None
    /\ decoded[1].kind = "BGEU"
    /\ decoded[1].variant.val = -2

\* C25: for every word with opcode 1101111 decode returns JAL whose
\* immediate has imm[20] = bit 31, imm[10:1] = bits 30:21, imm[11] = bit 20,
\* imm[19:12] = bits 19:12 and imm[0] = 0, sign-extended from 21 bits, so it
\* is even and lies in -1048576 .. 1048574.
C25_JTypeImmediate ==
    (dpc # "fetched" /\ RawOpcode = 111) =>
        /\ decoded # None
        /\ decoded[1].kind = "JAL"
        /\ decoded[1].variant.type = "J"
        /\ decoded[1].variant.val =
             Signed21((raw.hi \div 32768) * 1048576
                      + ((raw.hi % 16) * 16 + raw.lo \div 4096) * 4096
                      + ((raw.hi \div 16) % 2) * 2048
                      + ((raw.hi \div 32) % 1024) * 2)
        /\ decoded[1].variant.val % 2 = 0
        /\ decoded[1].variant.val \in -1048576 .. 1048574

\* A jump whose immediate is -2: every immediate bit of the word set.
C25_Witness ==
    /\ dpc = "decoded" /\ RawOpcode = 111
    /\ raw.hi = 65535 /\ RawFunct3 = 7
    /\ decoded # None
    /\ decoded[1].kind = "JAL"
    /\ decoded[1].variant.val = -2


\* C26: read<T> and write<T> complete for every address without aborting:
\* a multi-byte access whose first byte (mod size) is within sizeof(T) - 1
\* bytes of the end of the buffer wraps or reports a fault, it does not
\* index past the buffer.
C26_NoAbort == memOp.name \in {"read", "write"} => ~memPanicked

\* C27: a register-file write changes at most the slot it names:
\* write_x(i, v) leaves every x register other than i, the pc and every CSR
\* unchanged, write_csr(n, v) leaves every CSR other than n, the pc and
\* every x register unchanged, and read_x, read_csr (that of SATP, which is
\* the read of the MMU, among them) and pc() change nothing.
C27_WriteFrame ==
    [][/\ regOp'.name = "write_x" =>
            /\ DOMAIN xregs' = DOMAIN xregs
            /\ \A j \in DOMAIN xregs : j # regOp'.reg => xregs'[j] = xregs[j]
            /\ csr' = csr /\ pc' = pc
       /\ regOp'.name = "write_csr" =>
            /\ \A n \in (DOMAIN csr \cup DOMAIN csr') \ {regOp'.reg} :
                  (read_csr(n))' = read_csr(n)
            /\ xregs' = xregs /\ pc' = pc
       /\ regOp'.name \in {"read_x", "read_csr", "pc"} =>
            UNCHANGED <<xregs, csr, pc>>]_vars

\* write_csr(SATP, v) on a register file whose x30, CSR 4095 and pc are
\* not zero, which they still are after it.
C27_Witness ==
    /\ regOp.name = "write_csr" /\ regOp.reg = SATP /\ regOp.val # 0
    /\ read_csr(SATP) = regOp.val
    /\ read_csr(CSR_CAPACITY - 1) # 0
    /\ read_x(30) # 0
    /\ pc # 0
    /\ ~regPanicked

====
